---- MODULE Spec2Model ----
(***************************************************************************)
(* Board generation and board queries of the Catan starting-board program  *)
(* (src/main.py): class Board, invert, and the tile walk of BoardUI.draw.  *)
(*                                                                         *)
(* A Python list is a sequence (1-based here, 0-based in the source: the   *)
(* source's tiles[k] is tiles[k + 1] below).  An optional value is a       *)
(* sequence of length at most one: None is << >>, the value v is << v >>.  *)
(* An attribute that has not been assigned yet is the empty sequence.      *)
(***************************************************************************)
EXTENDS Integers, Sequences, FiniteSets, TLC

VARIABLES
    pc,           \* position of the latest Board(...) call: new, loop, check, done, raised
    options,      \* self.options: a dict from option names to booleans
    center,       \* the center argument of Board.__init__
    ports,        \* self.ports
    tile_data,    \* the local tile_data of Board._generate
    tiles,        \* self.tiles
    center_tile,  \* self.center_tile
    err,          \* the exception that left the latest call, or "none"
    _terrain,     \* Board._terrain (class attribute, a mutable list)
    _numbers,     \* Board._numbers (class attribute, a mutable list)
    _ports,       \* Board._ports   (class attribute, a mutable list)
    call,         \* << src id, dst id >> of the latest Board.direction call, or << >>
    ret,          \* the direction that call returned, or << >>
    centers       \* the local centers of BoardUI.draw: tile id -> direction it was reached by

vars == << pc, options, center, ports, tile_data, tiles, center_tile, err,
           _terrain, _numbers, _ports, call, ret, centers >>

(***************************************************************************)
(* Bounds.  random.shuffle may return any permutation of its list; the     *)
(* model draws the permutations that rearrange the first k entries, k      *)
(* being the window given for the terrain, the numbers and the ports.      *)
(***************************************************************************)
TerrainWindow == 5
NumberWindow == 4
PortWindow == 2

\* Optional values.
None == << >>
Some(v) == << v >>

----------------------------------------------------------------------------
(* Constant data of class Board.                                           *)

TERRAIN ==
    << "F", "F", "F", "F", "P", "P", "P", "P", "H", "H", "H", "H",
       "M", "M", "M", "C", "C", "C" >>

NUMBERS_swapped == << 5, 2, 6, 8, 3, 10, 9, 12, 11, 4, 8, 10, 9, 4, 5, 6, 3, 11 >>

NUMBERS == << 5, 2, 6, 3, 8, 10, 9, 12, 11, 4, 8, 10, 9, 4, 5, 6, 3, 11 >>

PORTS == << "?", "O", "G", "?", "L", "B", "?", "?", "W" >>

_graph_gap ==
    << <<1,  2,  "SW">>, <<1,  12, "E" >>, <<1,  13, "SE">>,
       <<2,  3,  "SW">>, <<2,  13, "E" >>, <<2,  14, "SE">>,
       <<3,  4,  "SE">>, <<3,  14, "E" >>,
       <<4,  5,  "SE">>, <<4,  14, "NE">>, <<4,  15, "E" >>,
       <<5,  6,  "E" >>, <<5,  15, "NE">>,
       <<6,  7,  "E" >>, <<6,  15, "NW">>, <<6,  16, "NE">>,
       <<7,  8,  "NE">>, <<7,  16, "NW">>,
       <<8,  9,  "NE">>, <<8,  16, "W" >>, <<8,  17, "NW">>,
       <<9,  10, "NW">>, <<9,  17, "W" >>,
       <<10, 11, "NW">>, <<10, 17, "SW">>, <<10, 18, "W" >>,
       <<11, 18, "SW">>,
       <<12, 13, "SW">>, <<12, 18, "SE">>,
       <<13, 14, "SW">>, <<13, 18, "E" >>, <<13, 19, "SE">>,
       <<14, 15, "SE">>, <<14, 19, "E" >>,
       <<15, 16, "E" >>, <<15, 19, "NE">>,
       <<16, 17, "NE">>, <<16, 19, "NW">>,
       <<17, 18, "NW">>, <<17, 19, "W" >>,
       <<18, 19, "SW">> >>

_graph ==
    << <<1,  2,  "SW">>, <<1,  12, "E" >>, <<1,  13, "SE">>,
       <<2,  3,  "SW">>, <<2,  13, "E" >>, <<2,  14, "SE">>,
       <<3,  4,  "SE">>, <<3,  14, "E" >>,
       <<4,  5,  "SE">>, <<4,  14, "NE">>, <<4,  15, "E" >>,
       <<5,  6,  "E" >>, <<5,  15, "NE">>,
       <<6,  7,  "E" >>, <<6,  15, "NW">>, <<6,  16, "NE">>,
       <<7,  8,  "NE">>, <<7,  16, "NW">>,
       <<8,  9,  "NE">>, <<8,  16, "W" >>, <<8,  17, "NW">>,
       <<9,  10, "NW">>, <<9,  17, "W" >>,
       <<10, 11, "NW">>, <<10, 17, "SW">>, <<10, 18, "W" >>,
       <<11, 12, "W" >>, <<11, 18, "SW">>,
       <<12, 13, "SW">>, <<12, 18, "SE">>,
       <<13, 14, "SW">>, <<13, 18, "E" >>, <<13, 19, "SE">>,
       <<14, 15, "SE">>, <<14, 19, "E" >>,
       <<15, 16, "E" >>, <<15, 19, "NE">>,
       <<16, 17, "NE">>, <<16, 19, "NW">>,
       <<17, 18, "NW">>, <<17, 19, "W" >>,
       <<18, 19, "SW">> >>

_port_locations ==
    << <<1, "NW">>, <<2,  "W" >>, <<4,  "W" >>,
       <<5, "SW">>, <<6,  "SE">>, <<8,  "SE">>,
       <<9, "E" >>, <<10, "NE">>, <<12, "NE">> >>

_direction_pairs ==
    [d \in {"E", "SW", "SE", "W", "NE", "NW"} |->
        CASE d = "E"  -> "W"
          [] d = "SW" -> "NE"
          [] d = "SE" -> "NW"
          [] d = "W"  -> "E"
          [] d = "NE" -> "SW"
          [] d = "NW" -> "SE"]

OptionNames == {"randomize_production", "randomize_ports"}

\* The dicts a caller may pass as options: every subset of the two names.
OptionDicts == UNION { [S -> BOOLEAN] : S \in SUBSET OptionNames }

\* The dicts the UI passes: both names present.
FullOptionDicts == [OptionNames -> BOOLEAN]

----------------------------------------------------------------------------
(* Helpers of the Python runtime.                                          *)

\* d[k] on a dict: the value, or KeyError.
getitem_default(d, k) ==
    [raised |-> FALSE, value |-> IF k \in DOMAIN d THEN d[k] ELSE FALSE]

getitem(d, k) ==
    IF k \in DOMAIN d
        THEN [raised |-> FALSE, value |-> d[k]]
        ELSE [raised |-> TRUE,  value |-> FALSE]

Min(a, b) == IF a < b THEN a ELSE b

Perms(k) == { p \in [1..k -> 1..k] : \A i, j \in 1..k : p[i] = p[j] => i = j }

\* Outcomes of random.shuffle(x): the permutations of x that rearrange its
\* first w entries.
ShuffleOutcomes(x, w) ==
    LET k == Min(w, Len(x))
    IN  { [i \in 1..Len(x) |-> IF i <= k THEN x[p[i]] ELSE x[i]] : p \in Perms(k) }

\* list(zip(a, b))
zip(a, b) == [i \in 1..Min(Len(a), Len(b)) |-> << a[i], b[i] >>]

\* The numbers as tile values (a tile's value is a number or None).
values(n) == [i \in 1..Len(n) |-> Some(n[i])]

\* s.insert(pos, x) with 0 <= pos <= len(s)
insert(s, pos, x) == SubSeq(s, 1, pos) \o << x >> \o SubSeq(s, pos + 1, Len(s))

----------------------------------------------------------------------------
(* invert and the methods of class Board.                                  *)

invert_keep(edge) == << edge[2], edge[1], edge[3] >>

invert(edge) == << edge[2], edge[1], _direction_pairs[edge[3]] >>

\* Board._edges_for(tile): the stored edges leaving the tile, then the
\* inverses of the stored edges entering it.
_edges_for(tile) ==
    LET leaving(e)  == e[1] = tile.id
        entering(e) == e[2] = tile.id
        into        == SelectSeq(_graph, entering)
    IN  SelectSeq(_graph, leaving) \o [i \in 1..Len(into) |-> invert(into[i])]

\* Board.direction(src, dst): next() over the edges of src that end in dst;
\* an exhausted generator makes next() raise StopIteration.
direction_east(src, dst) ==
    LET ends(e) == e[2] = dst.id
        found   == SelectSeq(_edges_for(src), ends)
    IN  IF found = << >>
            THEN [raised |-> "none", value |-> Some("E")]
            ELSE [raised |-> "none", value |-> Some(found[1][3])]

direction(src, dst) ==
    LET ends(e) == e[2] = dst.id
        found   == SelectSeq(_edges_for(src), ends)
    IN  IF found = << >>
            THEN [raised |-> "StopIteration", value |-> None]
            ELSE [raised |-> "none", value |-> Some(found[1][3])]

\* Board.neighbors_for(tile), as tile ids.
neighbors_for(tile) ==
    LET es == _edges_for(tile) IN [i \in 1..Len(es) |-> es[i][2]]

\* Board._check_red_placement(tiles), tiles being the (terrain, value) pairs.
_check_red_placement_six(td) ==
    \A k \in 1..Len(_graph) :
        ~ \A t \in { td[_graph[k][1]], td[_graph[k][2]] } : t[2] \in { Some(6) }

_check_red_placement_never(td) ==
    \A k \in 1..Len(_graph) :
        \A t \in { td[_graph[k][1]], td[_graph[k][2]] } : t[2] \in { Some(6), Some(8) }

_check_red_placement(td) ==
    \A k \in 1..Len(_graph) :
        ~ \A t \in { td[_graph[k][1]], td[_graph[k][2]] } : t[2] \in { Some(6), Some(8) }

\* The list Board._generate returns: Tile(id=i, terrain=t, value=v) for
\* i, (t, v) in enumerate(tile_data, 1).
Tiles_from_zero(td) ==
    [i \in 1..Len(td) |-> [id |-> i - 1, terrain |-> td[i][1], value |-> td[i][2]]]

Tiles(td) ==
    [i \in 1..Len(td) |-> [id |-> i, terrain |-> td[i][1], value |-> td[i][2]]]

\* self.tiles[center or 10]: 0 is the falsy index.
center_index_ten(c) == 10

center_index(c) == IF c = 0 THEN 10 ELSE c

\* The lists one pass of the loop of _generate draws for a pool: a shuffled
\* copy if the option is set, else an unshuffled copy.
drawn_always(pool, randomize, w) == ShuffleOutcomes(pool, w)

drawn(pool, randomize, w) ==
    IF randomize THEN ShuffleOutcomes(pool, w) ELSE { pool }

\* What the class attribute holds after list(pool) was shuffled: the copy
\* was shuffled, the attribute is as it was.
after_copy_aliased(pool, shuffled) == shuffled

after_copy(pool, shuffled) == pool

\* The tile walk of BoardUI.draw from the i-th tile of ts on: the first tile
\* is placed at the origin, every later one by the direction from the tile
\* before it, kept as the angle _angle_order.index(direction) * 60.
_angle_order == << "E", "SE", "SW", "W", "NW", "NE" >>

index(s, x) == CHOOSE i \in 1..Len(s) : s[i] = x /\ \A j \in 1..(i - 1) : s[j] # x

RECURSIVE walk(_, _, _)
walk(ts, i, cs) ==
    IF i > Len(ts) THEN [raised |-> "none", centers |-> cs]
    ELSE IF i = 1 THEN walk(ts, 2, (ts[1].id :> None))
    ELSE LET r == direction(ts[i - 1], ts[i])
         IN  IF r.raised # "none"
                 THEN [raised |-> r.raised, centers |-> cs]
                 ELSE walk(ts, i + 1,
                           cs @@ (ts[i].id :> Some((index(_angle_order, r.value[1]) - 1) * 60)))

----------------------------------------------------------------------------
(* The state machine.                                                      *)

Init ==
    /\ pc = "new"
    /\ options = << >>
    /\ center = 1
    /\ ports = << >>
    /\ tile_data = << >>
    /\ tiles = << >>
    /\ center_tile = None
    /\ err = "none"
    /\ _terrain = TERRAIN
    /\ _numbers = NUMBERS
    /\ _ports = PORTS
    /\ call = << >>
    /\ ret = None
    /\ centers = << >>

\* Board(opts, center=c) up to the call of self._generate(): a fresh object,
\* whose tiles, ports and center_tile are not assigned yet.
BoardInit(opts, c) ==
    /\ pc \in {"new", "done", "raised"}
    /\ pc' = "loop"
    /\ options' = opts
    /\ center' = c
    /\ ports' = << >>
    /\ tile_data' = << >>
    /\ tiles' = << >>
    /\ center_tile' = None
    /\ err' = "none"
    /\ call' = << >>
    /\ ret' = None
    /\ centers' = << >>
    /\ UNCHANGED << _terrain, _numbers, _ports >>

\* One pass of the loop of Board._generate up to the insertion of the desert.
\* tw, nw, pw bound the shuffles of the three pools.
GenerateAttempt(tw, nw, pw) ==
    /\ pc = "loop"
    /\ LET production == getitem(options, "randomize_production")
           rports     == getitem(options, "randomize_ports")
       IN  IF production.raised
               THEN /\ \E t \in drawn(_terrain, TRUE, tw) :
                          _terrain' = after_copy(_terrain, t)
                    /\ pc' = "raised"
                    /\ err' = "KeyError"
                    /\ UNCHANGED << _numbers, _ports, ports, tile_data >>
           ELSE IF rports.raised
               THEN /\ \E t \in drawn(_terrain, TRUE, tw) :
                          _terrain' = after_copy(_terrain, t)
                    /\ \E n \in drawn(_numbers, production.value, nw) :
                          _numbers' = after_copy(_numbers, n)
                    /\ pc' = "raised"
                    /\ err' = "KeyError"
                    /\ UNCHANGED << _ports, ports, tile_data >>
           ELSE \E t \in drawn(_terrain, TRUE, tw) :
                \E n \in drawn(_numbers, production.value, nw) :
                \E p \in drawn(_ports, rports.value, pw) :
                \E d \in 0..Len(zip(t, values(n))) :
                    /\ _terrain' = after_copy(_terrain, t)
                    /\ _numbers' = after_copy(_numbers, n)
                    /\ _ports' = after_copy(_ports, p)
                    /\ ports' = [i \in 1..Min(Len(_port_locations), Len(p)) |->
                                    << _port_locations[i][1], _port_locations[i][2], p[i] >>]
                    /\ tile_data' = insert(zip(t, values(n)), d, << "D", None >>)
                    /\ pc' = "check"
                    /\ err' = "none"
    /\ UNCHANGED << options, center, tiles, center_tile, call, ret, centers >>

\* The end of the pass: continue on a red placement, else return the tiles,
\* which Board.__init__ assigns and indexes for center_tile.  The locals are
\* dead after either exit.
CheckAttempt ==
    /\ pc = "check"
    /\ IF options["randomize_production"] /\ ~ _check_red_placement(tile_data)
           THEN /\ pc' = "loop"
                /\ UNCHANGED << tiles, center_tile >>
           ELSE /\ pc' = "done"
                /\ tiles' = Tiles(tile_data)
                /\ center_tile' = Some(tiles'[center_index(center) + 1])
    /\ tile_data' = << >>
    /\ UNCHANGED << options, center, ports, err, _terrain, _numbers, _ports,
                    call, ret, centers >>

\* board.direction(board.tiles[a - 1], board.tiles[b - 1]) on the finished board.
Direction(a, b) ==
    /\ pc = "done"
    /\ LET r == direction(tiles[a], tiles[b])
       IN  /\ call' = << tiles[a].id, tiles[b].id >>
           /\ ret' = r.value
           /\ err' = r.raised
    /\ centers' = << >>
    /\ UNCHANGED << pc, options, center, ports, tile_data, tiles, center_tile,
                    _terrain, _numbers, _ports >>

\* The tile walk of BoardUI.draw(board) on the finished board.
Draw ==
    /\ pc = "done"
    /\ LET w == walk(tiles, 1, << >>)
       IN  /\ centers' = w.centers
           /\ err' = w.raised
    /\ call' = << >>
    /\ ret' = None
    /\ UNCHANGED << pc, options, center, ports, tile_data, tiles, center_tile,
                    _terrain, _numbers, _ports >>

\* Generation, as a caller of Board(options) sees it.
Next ==
    \/ \E o \in OptionDicts : BoardInit(o, 1)
    \/ GenerateAttempt(TerrainWindow, NumberWindow, PortWindow)
    \/ CheckAttempt

Spec == Init /\ [][Next]_vars

\* The retry loop.  The terrain shuffle is the identity here (window 1):
\* the check reads the numbers and the desert position only.
LoopNext ==
    \/ \E o \in OptionDicts : BoardInit(o, 1)
    \/ GenerateAttempt(1, NumberWindow, PortWindow)
    \/ CheckAttempt

\* A pass that draws a placement the check accepts.
GenerateValid ==
    /\ GenerateAttempt(1, NumberWindow, PortWindow)
    /\ pc' = "check"
    /\ options["randomize_production"] => _check_red_placement(tile_data')

\* A pass whose shuffles happen to leave every list in its order.
GenerateInOrder ==
    /\ GenerateAttempt(1, 1, 1)
    /\ pc' = "check"

\* random picks every outcome again and again: a loop that keeps running
\* draws the in-order outcome at some pass.
FairSpec ==
    Init /\ [][LoopNext]_vars /\ WF_vars(CheckAttempt) /\ SF_vars(GenerateInOrder)

\* The center arguments tried: the default 1, the falsy 0, and 10.
CenterArgs == {1, 0, 10}

\* Construction with a center argument.  The shuffles are the identity here
\* (window 1): the tile ids do not depend on them.
CenterNext ==
    \/ \E o \in FullOptionDicts : \E c \in CenterArgs : BoardInit(o, c)
    \/ GenerateAttempt(1, 1, 1)
    \/ CheckAttempt

CenterSpec == Init /\ [][CenterNext]_vars

\* The options of main().
MainOptions == [o \in OptionNames |-> TRUE]

\* Queries on the boards of main().  The shuffles are the identity here
\* (window 1): direction and draw read the tile ids and the graph only.
\* The direction calls of a caller are chained as those of draw are
\* (direction(last, tile), then last = tile): a call starts from any tile
\* on a board not asked yet, and from the tile the call before aimed at.
QueryNext ==
    \/ BoardInit(MainOptions, 1)
    \/ GenerateAttempt(1, 1, 1)
    \/ CheckAttempt
    \/ \E a \in 1..Len(tiles) : \E b \in 1..Len(tiles) :
          /\ call # << >> => tiles[a].id = call[2]
          /\ Direction(a, b)
    \/ Draw

QuerySpec == Init /\ [][QueryNext]_vars

----------------------------------------------------------------------------
(* Vocabulary of the properties.                                           *)

Red == { Some(6), Some(8) }

\* Tile ids a and b are joined by a stored edge, in either direction.
Adjacent(a, b) ==
    \E k \in 1..Len(_graph) : { _graph[k][1], _graph[k][2] } = { a, b } /\ a # b

\* The tile of ts with id a.
TileById(ts, a) == CHOOSE t \in { ts[i] : i \in 1..Len(ts) } : t.id = a

\* Some edge joins two tiles of ts that both hold a red value.
RedAdjacency(ts) ==
    \E i \in 1..Len(ts) :
        /\ ts[i].value \in Red
        /\ \E j \in 1..Len(ts) :
              /\ ts[j].value \in Red
              /\ Adjacent(ts[i].id, ts[j].id)

\* The numbers of the tiles that have one, in list order.
RECURSIVE NonNullValues(_)
NonNullValues(ts) ==
    IF ts = << >> THEN << >>
    ELSE (IF Head(ts).value = None THEN << >> ELSE << Head(ts).value[1] >>)
         \o NonNullValues(Tail(ts))

Count(ts, terrain) == Cardinality({ i \in 1..Len(ts) : ts[i].terrain = terrain })

FullOptions == DOMAIN options = OptionNames

Returned == pc = "done"

CompassInverse(d) ==
    CASE d = "E"  -> "W"
      [] d = "W"  -> "E"
      [] d = "SE" -> "NW"
      [] d = "NW" -> "SE"
      [] d = "SW" -> "NE"
      [] d = "NE" -> "SW"

PoolsIntact == _terrain = TERRAIN /\ _numbers = NUMBERS /\ _ports = PORTS

----------------------------------------------------------------------------
(* The properties.                                                         *)

\* C1: a board returned with randomize_production set has no graph edge
\* whose two tiles both hold 6 or 8, whatever randomize_ports, the shuffles
\* and the desert position were.
C1_NoRedAdjacency ==
    (Returned /\ options["randomize_production"]) => ~ RedAdjacency(tiles)

\* C1 witness: a board returned with randomize_production set whose numbers
\* were shuffled out of the canonical order.
C1_Witness ==
    /\ Returned
    /\ options["randomize_production"]
    /\ NonNullValues(tiles) # NUMBERS

\* C2: a returned board has 19 tiles, the i-th with id i, exactly one of
\* them Desert, the Desert without a value and every other tile with one.
C2_TileShape ==
    Returned =>
        /\ Len(tiles) = 19
        /\ \A i \in 1..Len(tiles) : tiles[i].id = i
        /\ Cardinality({ i \in 1..Len(tiles) : tiles[i].terrain = "D" }) = 1
        /\ \A i \in 1..Len(tiles) : (tiles[i].terrain = "D") <=> (tiles[i].value = None)

\* C2 witness: a returned board whose desert was inserted at position 0.
C2_Witness == Returned /\ tiles[1].terrain = "D" /\ tiles[2].id = 2

\* C3: the pools are never changed, and a board returned with both options
\* false carries the canonical numbers in order on its tiles and the
\* terrain counts F:4 P:4 H:4 M:3 C:3 D:1.
C3_Canonical ==
    /\ PoolsIntact
    /\ (/\ Returned
        /\ ~ options["randomize_production"]
        /\ ~ options["randomize_ports"])
       => /\ NonNullValues(tiles) = NUMBERS
          /\ Count(tiles, "F") = 4 /\ Count(tiles, "P") = 4 /\ Count(tiles, "H") = 4
          /\ Count(tiles, "M") = 3 /\ Count(tiles, "C") = 3 /\ Count(tiles, "D") = 1

\* C3 witness: a board returned with both options false, its terrain
\* shuffled and its desert in the middle of the list.
C3_Witness ==
    /\ Returned
    /\ ~ options["randomize_production"]
    /\ ~ options["randomize_ports"]
    /\ tiles[5].terrain = "D"
    /\ tiles[1].terrain = "P"

\* C4: consecutive tiles of a board are adjacent, so direction is defined
\* along the tile list, and a walk of draw places all 19 tiles without
\* direction failing.
C4_PathAdjacent ==
    Returned =>
        /\ \A i \in 1..(Len(tiles) - 1) :
              /\ Adjacent(tiles[i].id, tiles[i + 1].id)
              /\ direction(tiles[i], tiles[i + 1]).raised = "none"
        /\ (centers # << >>) => (err = "none" /\ DOMAIN centers = 1..19)

\* C4 witness: draw has walked the board and placed every tile.
C4_Witness == Returned /\ DOMAIN centers = 1..19 /\ centers[19] = Some(120)

\* C5 as stated: without a center argument (the default, 1) center_tile is
\* the tile with id 10.
C5_CenterIsTen ==
    (Returned /\ center = 1) => center_tile = Some(TileById(tiles, 10))

\* C5 amended: without a center argument (the default, 1) center_tile is
\* tiles[1] of the source, the tile with id 2; the index 10 stands in for a
\* falsy center only, and selects the tile with id 11.
C5_CenterIsTwo ==
    /\ (Returned /\ center = 1) => center_tile = Some(TileById(tiles, 2))
    /\ (Returned /\ center = 0) => center_tile = Some(TileById(tiles, 11))

\* C5 witness: a board built with the default center.
C5_Witness == Returned /\ center = 1 /\ center_tile # None /\ center_tile[1].id = 2

\* C6: for tiles a and b of a board with b a neighbor of a, direction(a, b)
\* and direction(b, a) are defined and each the compass inverse of the other.
C6_DirectionInverse ==
    Returned =>
        \A i \in 1..Len(tiles) :
            \A n \in 1..Len(neighbors_for(tiles[i])) :
                LET b  == TileById(tiles, neighbors_for(tiles[i])[n])
                    ab == direction(tiles[i], b)
                    ba == direction(b, tiles[i])
                IN  /\ ab.raised = "none"
                    /\ ba.raised = "none"
                    /\ ba.value[1] = CompassInverse(ab.value[1])
                    /\ ab.value[1] = CompassInverse(ba.value[1])

\* C6 witness: direction was asked against a stored edge and answered with
\* the inverse of the stored direction.
C6_Witness == Returned /\ call = << 2, 1 >> /\ ret = Some("NE")

\* C7: a direction call on a pair that is not adjacent (the same tile
\* twice included) raises (StopIteration, from next() on the exhausted
\* generator), returns no direction, and leaves the board as it was.
C7_NotAdjacentRaises ==
    /\ [](( call # << >> /\ ~ Adjacent(call[1], call[2]) )
            => ( err = "StopIteration" /\ ret = None ))
    /\ [][ ( call' # << >> /\ ~ Adjacent(call'[1], call'[2]) )
            => /\ err' = "StopIteration"
               /\ ret' = None
               /\ UNCHANGED << tiles, ports, center_tile, options, pc,
                               _terrain, _numbers, _ports >> ]_vars

\* C7 witness: direction was called with the same tile twice and raised.
C7_Witness == call = << 7, 7 >> /\ err = "StopIteration" /\ ret = None

\* C8: construction with options lacking a key raises (KeyError, from the
\* lookup of the missing key) at the first pass of the loop, before any
\* tiles, ports or center_tile are assigned, and returns no board.
C8_MissingKeyRaises ==
    /\ [](( pc # "new" /\ ~ FullOptions )
            => /\ pc \in {"loop", "raised"}
               /\ pc = "raised" => err = "KeyError"
               /\ tiles = << >> /\ ports = << >> /\ center_tile = None
               /\ tile_data = << >>)
    /\ [][ ( pc = "loop" /\ ~ FullOptions )
            => ( pc' = "raised" /\ err' = "KeyError" ) ]_vars

\* C8 witness: construction raised on the second lookup, randomize_ports
\* being the missing key.
C8_Witness ==
    /\ pc = "raised"
    /\ err = "KeyError"
    /\ DOMAIN options = {"randomize_production"}
    /\ options["randomize_production"]

\* C9: a board returned with randomize_production false, for which the
\* check is skipped, has no graph edge whose two tiles both hold 6 or 8.
C9_CanonicalValid ==
    (Returned /\ ~ options["randomize_production"]) => ~ RedAdjacency(tiles)

\* C9 witness: a board returned unchecked with the desert at position 3,
\* between the canonical 6 and 8.
C9_Witness ==
    /\ Returned
    /\ ~ options["randomize_production"]
    /\ tiles[4].terrain = "D"
    /\ tiles[3].value = Some(6)
    /\ tiles[6].value = Some(8)

\* C10: under fair random choice a construction with both options present
\* returns a board; a rejected pass goes back to the top of the loop with
\* the pools intact and nothing of the pass kept in tile_data; every such
\* loop state has a pass the check accepts; and with randomize_production
\* false the first pass is returned.
C10_Terminates ==
    /\ (pc = "loop" /\ FullOptions) ~> Returned
    /\ [](( pc = "loop" /\ FullOptions ) => ( PoolsIntact /\ ENABLED GenerateValid ))
    /\ [][ ( pc = "check" /\ pc' = "loop" )
            => /\ tile_data' = << >>
               /\ options["randomize_production"]
               /\ UNCHANGED << options, center, _terrain, _numbers, _ports >> ]_vars
    /\ [][ ( pc = "check" /\ ~ options["randomize_production"] )
            => pc' = "done" ]_vars

\* C10 witness: the loop is back at its top after a rejected pass (the
\* ports of that pass are still assigned).
C10_Witness == pc = "loop" /\ ports # << >> /\ options["randomize_production"]

====
